---- MODULE Spec2Model ----
(***************************************************************************)
(* golang-https-example: a minimal HTTPS client (https_client.go) and      *)
(* server (https_server.go), with the configuration variants the README    *)
(* documents (InsecureSkipVerify, RootCAs, client Certificates, ClientAuth *)
(* and ClientCAs, connecting by IP or by name).                            *)
(*                                                                         *)
(* The TLS handshake and the HTTP transport are the Go platform's; they    *)
(* are modelled as the README documents them (its Error/Solution           *)
(* sections) at the two call sites, client.Get and ListenAndServeTLS.      *)
(***************************************************************************)
EXTENDS Naturals, Sequences, FiniteSets

VARIABLES
    srvPc,        \* server process: "boot", "serving" or "fatal"
    srvEnv,       \* what the server finds at startup: [filesOk, bindOk]
    srvCfg,       \* the server's tls.Config: [ClientAuth, ClientCAs]
    srvCert,      \* the certificate in server.crt
    cli,          \* the client process of https_client.go
    conns,        \* connections the server holds: "cli" (the client's) and "peer"
                  \* (any other HTTPS peer's)
    stdout,       \* what the current client run printed with fmt
    stderr,       \* what the current client run printed with log
    failedBefore, \* history: some handshake with the server has failed
    everAccepted, \* history: the server has accepted a connection
    everHandled   \* history: handler.ServeHTTP has been invoked

vars == <<srvPc, srvEnv, srvCfg, srvCert, cli, conns, stdout, stderr,
          failedBefore, everAccepted, everHandled>>

-----------------------------------------------------------------------------
(* Bounds *)

\* requests an arbitrary peer sends on one kept-alive connection
MaxRequests == 2

-----------------------------------------------------------------------------
(* Data *)

\* []byte("PONG\n")
PONG == <<"P", "O", "N", "G", "\n">>

NoBody == << >>

StatusOK == "200 OK"

\* the requests a peer sends
Requests ==
    {[method |-> "GET", path |-> "/x"], [method |-> "HEAD", path |-> "/"],
     [method |-> "POST", path |-> "/x"]}

NoReq == [method |-> "", path |-> ""]

NoResp == [status |-> "", body |-> NoBody]

\* the addresses the client is pointed at: the shipped IP, or the name
Hosts == {"127.0.0.1", "localhost"}

IPs == {"127.0.0.1"}

\* subject common names of the server certificate
CommonNames == {"*", "localhost", "example.com"}

Labels(name) ==
    CASE name = "example.com" -> <<"example", "com">>
      [] OTHER -> <<name>>

\* a nil pool falls back to the host's root set, which holds none of the
\* certificates generated for this example
SystemRoots == {"system-root"}

NilPool == "nil"

\* server.crt as the README generates it: self-signed (its own root) without
\* SAN, or signed by ca.crt with the IP SAN
ServerCerts ==
    [root : {"server.crt"}, cn : CommonNames, ipSANs : {{}}]
        \cup [root : {"ca.crt"}, cn : CommonNames, ipSANs : {{"127.0.0.1"}}]

NoCert == "none"

\* what the client presents: nothing, client.crt, or some other certificate
ClientCerts == {NoCert, "client.crt", "other.crt"}

ClientAuthTypes == {"NoClientCert", "RequestClientCert", "RequireAndVerifyClientCert"}

\* the server's tls.Config: no ClientCAs, or with RequireAndVerifyClientCert
\* the pool holding client.crt
ServerConfigs ==
    [ClientAuth : ClientAuthTypes, ClientCAs : {NilPool}]
        \cup [ClientAuth : {"RequireAndVerifyClientCert"}, ClientCAs : {"client.crt"}]

\* the client's tls.Config and URL: InsecureSkipVerify, or a validating
\* configuration with no RootCAs or with a pool holding one certificate
ClientConfigs ==
    [InsecureSkipVerify : {TRUE}, RootCAs : {NilPool}, Certificates : ClientCerts,
     host : Hosts]
        \cup [InsecureSkipVerify : {FALSE}, RootCAs : {NilPool, "server.crt", "ca.crt"},
               Certificates : ClientCerts, host : Hosts]

\* the client as shipped: &tls.Config{} and https://127.0.0.1:8443
ShippedClient ==
    [InsecureSkipVerify |-> FALSE, RootCAs |-> NilPool, Certificates |-> NoCert,
     host |-> "127.0.0.1"]

ErrRefused == "dial tcp: connection refused"
ErrUnknownAuthority == "x509: certificate signed by unknown authority"
ErrNoIPSANs == "x509: cannot validate certificate because it doesn't contain any IP SANs"
ErrHostname == "x509: certificate is not valid for the name"
ErrNoClientCert == "tls: client didn't provide a certificate"
ErrBadClientCert == "tls: bad certificate"
ErrRead == "unexpected EOF"
NoErr == ""

TrustErrors == {ErrUnknownAuthority, ErrNoIPSANs, ErrHostname}
ClientAuthErrors == {ErrNoClientCert, ErrBadClientCert}

ConnIds == {"cli", "peer"}

ClosedConn == [state |-> "closed", req |-> NoReq, resp |-> NoResp, n |-> 0]

IdleClient ==
    [pc |-> "idle", cfg |-> ShippedClient, attempts |-> 0, err |-> NoErr,
     status |-> "", htmlData |-> NoBody]

-----------------------------------------------------------------------------
(* The platform's certificate checks, as the README documents them *)

Pool(p) == IF p = NilPool THEN SystemRoots ELSE {p}

IsIP(host) == host \in IPs

\* a pattern matches a name label by label; "*" stands for the left-most label
MatchHostnames(pattern, host) ==
    LET p == Labels(pattern)
        h == Labels(host)
    IN  /\ Len(p) = Len(h)
        /\ \A i \in 1..Len(p) : p[i] = h[i] \/ (i = 1 /\ p[i] = "*")

\* a slip: the subject's CN is matched for an IP address as it is for a name
VerifyHostnameByCN(cert, host) ==
    IF host \in cert.ipSANs \/ (cert.ipSANs = {} /\ MatchHostnames(cert.cn, host))
    THEN NoErr
    ELSE IF IsIP(host) THEN ErrNoIPSANs ELSE ErrHostname

\* an IP address is matched against the IP SANs only; a name falls back to the
\* subject's CN when the certificate carries no SAN
VerifyHostname(cert, host) ==
    IF IsIP(host)
    THEN IF host \in cert.ipSANs THEN NoErr ELSE ErrNoIPSANs
    ELSE IF cert.ipSANs = {} /\ MatchHostnames(cert.cn, host) THEN NoErr ELSE ErrHostname

\* a slip: the chain is not checked against the pool
VerifyServerCertNoChain(cfg, cert) ==
    IF cfg.InsecureSkipVerify THEN NoErr ELSE VerifyHostname(cert, cfg.host)

\* a slip: InsecureSkipVerify is not honoured
VerifyServerCertAlways(cfg, cert) ==
    IF cert.root \notin Pool(cfg.RootCAs) THEN ErrUnknownAuthority
    ELSE VerifyHostname(cert, cfg.host)

\* the client's check of the server's certificate
VerifyServerCert(cfg, cert) ==
    IF cfg.InsecureSkipVerify THEN NoErr
    ELSE IF cert.root \notin Pool(cfg.RootCAs) THEN ErrUnknownAuthority
    ELSE VerifyHostname(cert, cfg.host)

\* a slip: a certificate is verified only if one is given
VerifyClientCertIfGiven(cfg, presented) ==
    IF cfg.ClientAuth # "RequireAndVerifyClientCert" \/ presented = NoCert THEN NoErr
    ELSE IF presented \notin Pool(cfg.ClientCAs) THEN ErrBadClientCert
    ELSE NoErr

\* a slip: any certificate is required, none is verified
VerifyClientCertAny(cfg, presented) ==
    IF cfg.ClientAuth # "RequireAndVerifyClientCert" THEN NoErr
    ELSE IF presented = NoCert THEN ErrNoClientCert
    ELSE NoErr

\* the server's check of what the client presented, by its ClientAuth policy
VerifyClientCert(cfg, presented) ==
    IF cfg.ClientAuth # "RequireAndVerifyClientCert" THEN NoErr
    ELSE IF presented = NoCert THEN ErrNoClientCert
    ELSE IF presented \notin Pool(cfg.ClientCAs) THEN ErrBadClientCert
    ELSE NoErr

\* the handshake's outcome for one connection: the client validates the server
\* first, then the server applies its client-auth policy
HandshakeResult(ccfg, scfg, cert) ==
    IF VerifyServerCert(ccfg, cert) # NoErr
    THEN VerifyServerCert(ccfg, cert)
    ELSE VerifyClientCert(scfg, ccfg.Certificates)

-----------------------------------------------------------------------------
(* The platform's writers *)

RECURSIVE Sprintf(_)
\* fmt.Printf(format) with no operands: a verb with nothing to print is
\* reported in the output, "%%" prints one percent sign
Sprintf(format) ==
    IF format = << >> THEN << >>
    ELSE IF Head(format) # "%" THEN <<Head(format)>> \o Sprintf(Tail(format))
    ELSE IF Len(format) = 1 THEN <<"%", "!", "(", "N", "O", "V", "E", "R", "B", ")">>
    ELSE IF format[2] = "%" THEN <<"%">> \o Sprintf(Tail(Tail(format)))
    ELSE <<"%", "!", format[2], "(", "M", "I", "S", "S", "I", "N", "G", ")">>
         \o Sprintf(Tail(Tail(format)))

\* http.ResponseWriter.Write with no earlier WriteHeader: status 200; the
\* body of the answer to a HEAD request is not sent
Write(req, data) ==
    [status |-> StatusOK, body |-> IF req.method = "HEAD" THEN NoBody ELSE data]

\* a slip: the handler answers with the request's path
RespondEcho(req) == Write(req, IF req.path = "/" THEN PONG ELSE <<"/", "x">>)

\* handler.ServeHTTP: w.Write([]byte("PONG\n"))
Respond(req) == Write(req, PONG)

Out(line) == [line |-> line, raw |-> NoBody]

OutRaw(bytes) == [line |-> "", raw |-> bytes]

-----------------------------------------------------------------------------
(* State *)

Init ==
    /\ srvPc = "boot"
    /\ srvEnv \in [filesOk : BOOLEAN, bindOk : BOOLEAN]
    /\ srvCfg \in ServerConfigs
    /\ srvCert \in ServerCerts
    /\ cli = IdleClient
    /\ conns = [c \in ConnIds |-> ClosedConn]
    /\ stdout = << >>
    /\ stderr = << >>
    /\ failedBefore = FALSE
    /\ everAccepted = FALSE
    /\ everHandled = FALSE

-----------------------------------------------------------------------------
(* Server *)

\* a slip: the error of loading the key pair is dropped
ServerStartUnchecked ==
    /\ srvPc = "boot"
    /\ srvPc' = IF srvEnv.bindOk THEN "serving" ELSE "fatal"
    /\ UNCHANGED <<srvEnv, srvCfg, srvCert, cli, conns, stdout, stderr,
                   failedBefore, everAccepted, everHandled>>

\* main: srv.ListenAndServeTLS("server.crt", "server.key") under log.Fatal
ServerStart ==
    /\ srvPc = "boot"
    /\ srvPc' = IF srvEnv.bindOk /\ srvEnv.filesOk THEN "serving" ELSE "fatal"
    /\ UNCHANGED <<srvEnv, srvCfg, srvCert, cli, conns, stdout, stderr,
                   failedBefore, everAccepted, everHandled>>

\* handler.ServeHTTP on the pending request of connection c
ServeHTTP(c) ==
    /\ srvPc = "serving"
    /\ conns[c].state = "open"
    /\ conns[c].req # NoReq
    /\ conns[c].resp = NoResp
    /\ conns' = [conns EXCEPT ![c].resp = Respond(conns[c].req)]
    /\ everHandled' = TRUE
    /\ UNCHANGED <<srvPc, srvEnv, srvCfg, srvCert, cli, stdout, stderr,
                   failedBefore, everAccepted>>

-----------------------------------------------------------------------------
(* Client: https_client.go main *)

\* a slip: the error branch tries again instead of returning
GetFailedRetry(run, e) ==
    /\ cli' = [run EXCEPT !.pc = IF run.attempts < 2 THEN "get" ELSE "exited", !.err = e]
    /\ stderr' = Append(stderr, e)
    /\ stdout' = stdout

\* the error branch of client.Get: log.Println(err); return
GetFailed(run, e) ==
    /\ cli' = [run EXCEPT !.pc = "exited", !.err = e]
    /\ stderr' = Append(stderr, e)
    /\ stdout' = stdout

\* a run of the client starts with its http.Client built
ClientStart(cfg) ==
    /\ cli.pc \in {"idle", "exited"}
    /\ cli' = [IdleClient EXCEPT !.pc = "get", !.cfg = cfg]
    /\ conns' = [conns EXCEPT !["cli"] = ClosedConn]
    /\ stdout' = << >>
    /\ stderr' = << >>
    /\ UNCHANGED <<srvPc, srvEnv, srvCfg, srvCert, failedBefore,
                   everAccepted, everHandled>>

\* client.Get: the TCP connection; refused unless the server is listening
ClientDial ==
    /\ cli.pc = "get"
    /\ IF srvPc = "serving"
       THEN /\ cli' = [cli EXCEPT !.pc = "handshake", !.attempts = @ + 1]
            /\ conns' = [conns EXCEPT !["cli"].state = "handshake"]
            /\ everAccepted' = TRUE
            /\ UNCHANGED <<stdout, stderr>>
       ELSE /\ GetFailed([cli EXCEPT !.attempts = @ + 1], ErrRefused)
            /\ UNCHANGED <<conns, everAccepted>>
    /\ UNCHANGED <<srvPc, srvEnv, srvCfg, srvCert, failedBefore, everHandled>>

\* client.Get: the TLS handshake, then the GET is sent
ClientHandshake ==
    /\ cli.pc = "handshake"
    /\ LET e == HandshakeResult(cli.cfg, srvCfg, srvCert)
       IN  IF e = NoErr
           THEN /\ conns' = [conns EXCEPT !["cli"] =
                       [state |-> "open", req |-> [method |-> "GET", path |-> "/"],
                        resp |-> NoResp, n |-> 1]]
                /\ cli' = [cli EXCEPT !.pc = "await"]
                /\ UNCHANGED <<stdout, stderr, failedBefore>>
           ELSE /\ conns' = [conns EXCEPT !["cli"] = ClosedConn]
                /\ GetFailed(cli, e)
                /\ failedBefore' = TRUE
    /\ UNCHANGED <<srvPc, srvEnv, srvCfg, srvCert, everAccepted, everHandled>>

\* client.Get returns the response once its header has arrived
ClientGetReturn ==
    /\ cli.pc = "await"
    /\ conns["cli"].resp # NoResp
    /\ cli' = [cli EXCEPT !.pc = "read", !.status = conns["cli"].resp.status]
    /\ UNCHANGED <<srvPc, srvEnv, srvCfg, srvCert, conns, stdout, stderr,
                   failedBefore, everAccepted, everHandled>>

\* a slip: the body is printed before the status
ClientReadAllBodyFirst ==
    /\ cli.pc = "read"
    /\ cli' = [cli EXCEPT !.pc = "exited", !.htmlData = conns["cli"].resp.body]
    /\ stdout' = stdout \o <<OutRaw(Sprintf(conns["cli"].resp.body)), Out(cli.status)>>
    /\ conns' = [conns EXCEPT !["cli"].state = "closed"]
    /\ UNCHANGED <<srvPc, srvEnv, srvCfg, srvCert, stderr, failedBefore,
                   everAccepted, everHandled>>

\* ioutil.ReadAll succeeds: the status and the body are printed
ClientReadAll ==
    /\ cli.pc = "read"
    /\ cli' = [cli EXCEPT !.pc = "exited", !.htmlData = conns["cli"].resp.body]
    /\ stdout' = stdout \o <<Out(cli.status), OutRaw(Sprintf(conns["cli"].resp.body))>>
    /\ conns' = [conns EXCEPT !["cli"].state = "closed"]
    /\ UNCHANGED <<srvPc, srvEnv, srvCfg, srvCert, stderr, failedBefore,
                   everAccepted, everHandled>>

\* ioutil.ReadAll fails: fmt.Println(err); return
ClientReadAllFails ==
    /\ cli.pc = "read"
    /\ cli' = [cli EXCEPT !.pc = "exited", !.err = ErrRead]
    /\ stdout' = Append(stdout, Out(ErrRead))
    /\ conns' = [conns EXCEPT !["cli"].state = "closed"]
    /\ UNCHANGED <<srvPc, srvEnv, srvCfg, srvCert, stderr, failedBefore,
                   everAccepted, everHandled>>

-----------------------------------------------------------------------------
(* Any other peer of the server *)

\* a slip: a rejected handshake ends the server
PeerConnectFatal(cert) ==
    /\ conns["peer"].state = "closed"
    /\ srvPc = "serving"
    /\ everAccepted' = TRUE
    /\ IF VerifyClientCert(srvCfg, cert) = NoErr
       THEN /\ conns' = [conns EXCEPT !["peer"] = [ClosedConn EXCEPT !.state = "open"]]
            /\ UNCHANGED <<failedBefore, srvPc>>
       ELSE /\ failedBefore' = TRUE
            /\ srvPc' = "fatal"
            /\ UNCHANGED conns
    /\ UNCHANGED <<srvEnv, srvCfg, srvCert, cli, stdout, stderr, everHandled>>

\* a peer connects and presents cert (or nothing): the server's side of the
\* handshake
PeerConnect(cert) ==
    /\ conns["peer"].state = "closed"
    /\ srvPc = "serving"
    /\ everAccepted' = TRUE
    /\ IF VerifyClientCert(srvCfg, cert) = NoErr
       THEN /\ conns' = [conns EXCEPT !["peer"] = [ClosedConn EXCEPT !.state = "open"]]
            /\ UNCHANGED failedBefore
       ELSE /\ failedBefore' = TRUE
            /\ UNCHANGED conns
    /\ UNCHANGED <<srvPc, srvEnv, srvCfg, srvCert, cli, stdout, stderr, everHandled>>

\* the peer sends a request on its open connection
PeerSend(req) ==
    /\ conns["peer"].state = "open"
    /\ conns["peer"].n < MaxRequests
    /\ conns["peer"].req = NoReq \/ conns["peer"].resp # NoResp
    /\ conns' = [conns EXCEPT !["peer"] =
           [state |-> "open", req |-> req, resp |-> NoResp, n |-> conns["peer"].n + 1]]
    /\ UNCHANGED <<srvPc, srvEnv, srvCfg, srvCert, cli, stdout, stderr,
                   failedBefore, everAccepted, everHandled>>

\* the peer closes its connection
PeerClose ==
    /\ conns["peer"].state = "open"
    /\ conns["peer"].req = NoReq \/ conns["peer"].resp # NoResp
    /\ conns' = [conns EXCEPT !["peer"] = ClosedConn]
    /\ UNCHANGED <<srvPc, srvEnv, srvCfg, srvCert, cli, stdout, stderr,
                   failedBefore, everAccepted, everHandled>>

-----------------------------------------------------------------------------
(* Specifications *)

Next ==
    \/ ServerStart
    \/ \E c \in ConnIds : ServeHTTP(c)
    \/ \E cfg \in ClientConfigs : ClientStart(cfg)
    \/ ClientDial
    \/ ClientHandshake
    \/ ClientGetReturn
    \/ ClientReadAll
    \/ ClientReadAllFails
    \/ \E cert \in ClientCerts : PeerConnect(cert)
    \/ \E req \in Requests : PeerSend(req)
    \/ PeerClose

Spec == Init /\ [][Next]_vars

\* the platform schedules every accepted connection and every started client
\* step; nobody is obliged to start a client or a peer
Fairness ==
    /\ WF_vars(ServerStart)
    /\ \A c \in ConnIds : WF_vars(ServeHTTP(c))
    /\ WF_vars(ClientDial)
    /\ WF_vars(ClientHandshake)
    /\ WF_vars(ClientGetReturn)
    /\ WF_vars(ClientReadAll \/ ClientReadAllFails)

FairSpec == Spec /\ Fairness

-----------------------------------------------------------------------------
(* Properties *)

\* the client's run has been through the handshake with the server
PastHandshake ==
    \/ cli.pc \in {"await", "read"}
    \/ cli.pc = "exited" /\ cli.err # ErrRefused

\* the client's trust configuration accepts the server's identity for the
\* address it uses
ServerTrusted ==
    \/ cli.cfg.InsecureSkipVerify
    \/ /\ srvCert.root \in Pool(cli.cfg.RootCAs)
       /\ IF cli.cfg.host \in IPs
          THEN cli.cfg.host \in srvCert.ipSANs
          ELSE srvCert.ipSANs = {} /\ srvCert.cn \in {"*", cli.cfg.host}

\* the server's client-auth policy admits what the client presents
ClientAdmitted ==
    \/ srvCfg.ClientAuth # "RequireAndVerifyClientCert"
    \/ /\ cli.cfg.Certificates # NoCert
       /\ cli.cfg.Certificates \in Pool(srvCfg.ClientCAs)

Printed200PONG == stdout = <<Out("200 OK"), OutRaw(<<"P", "O", "N", "G", "\n">>)>>

NothingObtained ==
    /\ conns["cli"].state # "open"
    /\ conns["cli"].req = NoReq
    /\ conns["cli"].resp = NoResp
    /\ cli.status = ""
    /\ cli.htmlData = NoBody
    /\ stdout = << >>

C2_UnknownRootFails ==
    (/\ cli.pc # "idle"
     /\ ~cli.cfg.InsecureSkipVerify
     /\ srvCert.root = "server.crt"
     /\ srvCert.root \notin Pool(cli.cfg.RootCAs))
        => /\ NothingObtained
           /\ cli.pc \notin {"await", "read"}
           /\ PastHandshake
                 => cli.err = ErrUnknownAuthority /\ stderr = <<ErrUnknownAuthority>>

C2_Witness ==
    /\ cli.pc = "exited"
    /\ cli.cfg = ShippedClient
    /\ srvCert.root = "server.crt"
    /\ cli.err = ErrUnknownAuthority

\* C3: under RequireAndVerifyClientCert a client presenting no certificate
\* never gets a connection, whether or not it trusts the server: the handler
\* is never invoked for it, and when the client's own validation passes the
\* failure is the server's rejection.
C3_NoClientCertRejected ==
    (/\ cli.pc # "idle"
     /\ srvCfg.ClientAuth = "RequireAndVerifyClientCert"
     /\ cli.cfg.Certificates = NoCert)
        => /\ NothingObtained
           /\ cli.pc \notin {"await", "read"}
           /\ PastHandshake => cli.err # NoErr
           /\ (PastHandshake /\ ServerTrusted) => cli.err = ErrNoClientCert

C3_Witness ==
    /\ cli.pc = "exited"
    /\ srvCfg.ClientAuth = "RequireAndVerifyClientCert"
    /\ cli.cfg.Certificates = NoCert
    /\ cli.err = ErrNoClientCert

\* C4: under RequireAndVerifyClientCert, with a client that trusts the server:
\* a presented certificate in the server's ClientCAs completes the handshake,
\* the request is answered with status 200 and body PONG\n, and a body read
\* without error is PONG\n; a presented certificate outside ClientCAs is
\* rejected and nothing is answered.
C4_ClientCertDecides ==
    (/\ PastHandshake
     /\ srvCfg.ClientAuth = "RequireAndVerifyClientCert"
     /\ cli.cfg.Certificates # NoCert
     /\ ServerTrusted)
        => IF cli.cfg.Certificates \in Pool(srvCfg.ClientCAs)
           THEN /\ cli.err \in {NoErr, ErrRead}
                /\ conns["cli"].req = [method |-> "GET", path |-> "/"]
                /\ cli.pc # "await"
                      => /\ cli.status = "200 OK"
                         /\ conns["cli"].resp =
                                [status |-> "200 OK", body |-> <<"P", "O", "N", "G", "\n">>]
                /\ (cli.pc = "exited" /\ cli.err = NoErr) => Printed200PONG
           ELSE /\ cli.err = ErrBadClientCert
                /\ NothingObtained

C4_Witness ==
    /\ cli.pc = "exited"
    /\ srvCfg = [ClientAuth |-> "RequireAndVerifyClientCert", ClientCAs |-> "client.crt"]
    /\ cli.cfg.Certificates = "client.crt"
    /\ ~cli.cfg.InsecureSkipVerify
    /\ Printed200PONG

\* C5: with a trusted root and a certificate without SAN, a validating client
\* that connects by the IP 127.0.0.1 fails validation (no IP SANs) and gets no
\* connection, while by a name matching the subject's CN the same certificate
\* validates, and the connection is made when the client-auth policy admits
\* the client.
C5_NoSanByAddressOrName ==
    (/\ PastHandshake
     /\ ~cli.cfg.InsecureSkipVerify
     /\ srvCert.root \in Pool(cli.cfg.RootCAs)
     /\ srvCert.ipSANs = {})
        => /\ cli.cfg.host = "127.0.0.1"
                 => cli.err = ErrNoIPSANs /\ NothingObtained
           /\ (cli.cfg.host = "localhost" /\ srvCert.cn \in {"*", "localhost"})
                 => /\ cli.err \notin TrustErrors
                    /\ ClientAdmitted
                          => /\ cli.err \in {NoErr, ErrRead}
                             /\ conns["cli"].req # NoReq

C5_Witness ==
    /\ cli.pc = "exited"
    /\ ~cli.cfg.InsecureSkipVerify
    /\ srvCert.ipSANs = {}
    /\ cli.cfg.host = "localhost"
    /\ Printed200PONG

\* C6 as stated: every response of the handler, whatever the request, has
\* status 200 and body exactly PONG\n.
C6_Original ==
    \A c \in ConnIds :
        conns[c].resp # NoResp
            => conns[c].resp = [status |-> "200 OK", body |-> <<"P", "O", "N", "G", "\n">>]

\* C6 amended: every response, whatever the request's path, whatever came
\* before on this or the other connection and whatever the other connection is
\* doing, has status 200, and its body is exactly PONG\n unless the method is
\* HEAD, whose answer carries no body.
C6_ResponseFixed ==
    \A c \in ConnIds :
        conns[c].resp # NoResp
            => /\ conns[c].resp.status = "200 OK"
               /\ conns[c].req.method # "HEAD"
                     => conns[c].resp.body = <<"P", "O", "N", "G", "\n">>
               /\ conns[c].req.method = "HEAD" => conns[c].resp.body = << >>

C6_Witness ==
    /\ conns["peer"].n = MaxRequests
    /\ conns["peer"].req = [method |-> "POST", path |-> "/x"]
    /\ conns["peer"].resp # NoResp
    /\ conns["cli"].resp # NoResp
    /\ failedBefore

\* C7 (what every state shows): one Get per run at most; a failed run has
\* printed its error and neither status nor body; status and body are printed
\* only by a finished run whose whole body was read.
C7_Safe ==
    /\ cli.attempts <= 1
    /\ cli.err # NoErr
          => /\ cli.pc = "exited"
             /\ \/ stderr = <<cli.err>> /\ stdout = << >>
                \/ stderr = << >> /\ stdout = <<Out(cli.err)>> /\ cli.err = ErrRead
    /\ (\E i \in 1..Len(stdout) : stdout[i] \notin {Out(ErrRead)})
          => /\ cli.pc = "exited"
             /\ cli.err = NoErr
             /\ cli.htmlData = conns["cli"].resp.body
             /\ stdout = <<Out(cli.status), OutRaw(cli.htmlData)>>

\* C7: the client makes at most one request attempt per run, prints an error
\* and stops without status or body when the connection, the validation or
\* the read fails, prints status and body only after the whole body was read,
\* and every started run terminates.
C7_OneAttemptThenStop ==
    /\ []C7_Safe
    /\ (cli.pc = "get") ~> (cli.pc = "exited")

C7_Witness ==
    /\ cli.pc = "exited"
    /\ cli.err = ErrRead
    /\ cli.attempts = 1
    /\ stdout = <<Out(ErrRead)>>

\* C8: a server that cannot load its identity or cannot bind its port never
\* serves: once started it is dead, it never accepts a connection and the
\* handler is never invoked.
C8_StartupFailureIsFatal ==
    (~srvEnv.filesOk \/ ~srvEnv.bindOk)
        => /\ srvPc \in {"boot", "fatal"}
           /\ ~everAccepted
           /\ ~everHandled
           /\ \A c \in ConnIds : conns[c] = ClosedConn

C8_Witness ==
    /\ srvPc = "fatal"
    /\ ~srvEnv.filesOk
    /\ srvEnv.bindOk
    /\ cli.pc = "exited"
    /\ cli.err = ErrRefused

\* C9: a serving server stays serving with its configuration unchanged
\* whatever happens to a connection, and a client that connects after some
\* handshake has failed, with a configuration the trust and client-auth
\* checks accept, is eventually answered with 200 and PONG\n.
C9_ServerKeepsServing ==
    /\ [][srvPc = "serving"
             => srvPc' = "serving" /\ srvCfg' = srvCfg /\ srvCert' = srvCert]_vars
    /\ (/\ failedBefore
        /\ cli.pc = "handshake"
        /\ ServerTrusted
        /\ ClientAdmitted)
          ~> (/\ failedBefore
              /\ conns["cli"].resp = [status |-> "200 OK", body |-> <<"P", "O", "N", "G", "\n">>])

C9_Witness ==
    /\ failedBefore
    /\ srvPc = "serving"
    /\ cli.pc = "read"
    /\ conns["cli"].resp = [status |-> "200 OK", body |-> PONG]

\* C10: with InsecureSkipVerify the handshake's outcome is the client-auth
\* policy's alone, whatever certificate the server presents; a validating
\* client never accepts a certificate whose root it does not know nor, by IP
\* address, one without that IP SAN, and the shipped empty configuration
\* accepts none of the example's certificates.
C10_InsecureSkipsValidation ==
    PastHandshake
        => /\ cli.cfg.InsecureSkipVerify
                 => /\ cli.err \notin TrustErrors
                    /\ ClientAdmitted <=> cli.err \notin ClientAuthErrors
                    /\ ClientAdmitted <=> conns["cli"].req # NoReq
           /\ (/\ ~cli.cfg.InsecureSkipVerify
               /\ \/ srvCert.root \notin Pool(cli.cfg.RootCAs)
                  \/ cli.cfg.host \in IPs /\ cli.cfg.host \notin srvCert.ipSANs)
                 => cli.err \in TrustErrors /\ NothingObtained
           /\ (~cli.cfg.InsecureSkipVerify /\ cli.cfg.RootCAs = NilPool)
                 => cli.err = ErrUnknownAuthority

C10_Witness ==
    /\ cli.pc = "exited"
    /\ cli.cfg.InsecureSkipVerify
    /\ cli.cfg.RootCAs = NilPool
    /\ srvCert.root = "server.crt"
    /\ srvCert.ipSANs = {}
    /\ cli.cfg.host = "127.0.0.1"
    /\ Printed200PONG

====
